---------------------------- MODULE Spec2Model ----------------------------
(***************************************************************************)
(* Model of the image-similarity retrieval service: the similarity kernel  *)
(* (src/src/quantum/ae_qip_algorithm.py), the candidate ranker over the    *)
(* Appwrite collection (src/src/cloud/appwrite_retrieval.py), the Pinecone *)
(* vector service (src/services/pinecone_service.py) and the HTTP handlers *)
(* of the two servers (src/backend_server.py over Appwrite,                *)
(* src/backend/backend_server.py over Pinecone).                           *)
(*                                                                         *)
(* Numbers.  Feature vectors are sequences of small integers; the kernel   *)
(* normalises its inputs, so only their direction matters.  A cosine is    *)
(* kept in hundredths, truncated toward zero (CosPct); a similarity score  *)
(* is kept in thousandths (0.98 is 980).                                   *)
(***************************************************************************)
EXTENDS Integers, Sequences, FiniteSets, TLC

\* ------------------------------------------------------------------ bounds
\* Largest number of stored records (documents, or vectors in the index).
MaxDocs == 2
\* Largest top_k of a direct call of a search method.
MaxTopK == 2
\* config.FEATURE_DIMENSION (2048 in src/config.py:33), scaled down.
FEATURE_DIMENSION == 2

\* --------------------------------------------------------------- constants
\* top_k=10 passed by every HTTP handler.
HANDLER_TOP_K == 10
\* `if img['similarity'] >= 0.98`, in thousandths.
EXACT_MATCH_THRESHOLD == 980
\* default of HIGH_CONFIDENCE_THRESHOLD ('0.95'), in thousandths.
HIGH_CONFIDENCE_DEFAULT == 950
\* default of GOOD_CONFIDENCE_THRESHOLD ('0.0'), in thousandths.
GOOD_CONFIDENCE_THRESHOLD == 0
\* default of the confidence_threshold parameter (0.84), in thousandths.
DEFAULT_CONFIDENCE_THRESHOLD == 840

\* ------------------------------------------------------------- input sets
NoCategory == "none"
Categories == {"healthcare", "satellite"}
\* The category argument of a direct search: none, or one category.
CategoryFilters == {NoCategory, "healthcare"}

\* The vector of FEATURE_DIMENSION components (x, y, 0, ..., 0).
Embed(x, y) ==
    [i \in 1..FEATURE_DIMENSION |-> IF i = 1 THEN x ELSE IF i = 2 THEN y ELSE 0]

\* Feature vectors of the configured dimension, as the ResNet extractor
\* returns them: no component is negative (the all-zero vector is the
\* degenerate embedding).
ExtractedVectors == {Embed(1, 0), Embed(5, 1), Embed(4, 1), Embed(0, 0)}

\* A vector with a negative component, as the ViT extractor returns and as a
\* client may send.
SignedVectors == {Embed(-1, 0)}

\* A vector of another length.
ForeignVectors == {<<1>>}

\* The vectors a stored record may hold.
StoredVectors == ExtractedVectors \cup ForeignVectors

Vectors == ExtractedVectors \cup SignedVectors \cup ForeignVectors

\* A vector of FEATURE_DIMENSION + 1 components, as a caller of upsert_vector
\* may pass.
LongVectors ==
    {[i \in 1..(FEATURE_DIMENSION + 1) |->
         IF i = 1 THEN 1 ELSE IF i = FEATURE_DIMENSION + 1 THEN 2 ELSE 0]}

\* Values of HIGH_CONFIDENCE_THRESHOLD the environment may set.
HighThresholds == {HIGH_CONFIDENCE_DEFAULT, 990}

VARIABLES
    deployment,   \* "appwrite" (src/backend_server.py) or "pinecone" (src/backend/backend_server.py)
    cfg,          \* the Config object: HIGH_CONFIDENCE_THRESHOLD, USE_QUANTUM_INSPIRED
    documents,    \* the Appwrite collection, in the order list_documents returns it
    index,        \* the Pinecone index: a sequence of [id, values, category]
    resp,         \* the outcome of the last call
    process,      \* the server process: its phase, and whether config.validate() has passed
    algo,         \* the AEQIPAlgorithm object a library caller has constructed
    calls,        \* the latest calls of that object (or of the cache service), newest last
    redis,        \* the cache service of the process and the state of its Redis connection
    store         \* the Redis database: cache key -> pickled features

vars == <<deployment, cfg, documents, index, resp, process, algo, calls, redis, store>>

\* ------------------------------------------------------------ vector maths
RECURSIVE DotFrom(_, _, _)
DotFrom(v1, v2, i) ==
    IF i > Len(v1) THEN 0 ELSE v1[i] * v2[i] + DotFrom(v1, v2, i + 1)

\* np.dot of two equal-length 1-D arrays.
Dot(v1, v2) == DotFrom(v1, v2, 1)

\* np.linalg.norm(v) ** 2
NormSq(v) == Dot(v, v)

\* np.linalg.norm(v) < 1e-10 (an integer vector: all components zero, or empty)
IsZeroNorm(v) == NormSq(v) = 0

\* dot / (norm1 * norm2) in hundredths, truncated toward zero; both norms nonzero.
CosPct(v1, v2) ==
    LET d  == Dot(v1, v2)
        nn == NormSq(v1) * NormSq(v2)
        m  == CHOOSE k \in 0..100 :
                 /\ k * k * nn <= 10000 * d * d
                 /\ (k = 100 \/ (k + 1) * (k + 1) * nn > 10000 * d * d)
    IN IF d < 0 THEN -m ELSE m

\* np.clip(x, lo, hi)
Clip(x, lo, hi) == IF x < lo THEN lo ELSE IF x > hi THEN hi ELSE x

\* classical_sim ** 0.95 tabulated in hundredths: floor(100 * (c/100)^0.95).
Pow095Table ==
  << 0, 1, 2, 3, 4, 5, 6, 7, 9, 10, 11, 12, 13, 14, 15, 16, 17,
     18, 19, 20, 21, 22, 23, 24, 25, 26, 27, 28, 29, 30, 31, 32, 33, 34,
     35, 36, 37, 38, 39, 40, 41, 42, 43, 44, 45, 46, 47, 48, 49, 50, 51,
     52, 53, 54, 55, 56, 57, 58, 59, 60, 61, 62, 63, 64, 65, 66, 67, 68,
     69, 70, 71, 72, 73, 74, 75, 76, 77, 78, 78, 79, 80, 81, 82, 83, 84,
     85, 86, 87, 88, 89, 90, 91, 92, 93, 94, 95, 96, 97, 98, 99, 100 >>

Pow095(c) == Pow095Table[c + 1]

\* ------------------------------------------------------ similarity kernels
\* A scoring call either returns a score or raises.
Score(s) == [ok |-> TRUE, score |-> s]
Raised == [ok |-> FALSE, score |-> 0]

\* AEQIPAlgorithm._quantum_inspired_similarity: the norm test comes first and
\* returns 0.0; np.dot raises on arrays of different lengths.
quantum_inspired_similarity(f1, f2) ==
    IF IsZeroNorm(f1) \/ IsZeroNorm(f2) THEN Score(0)
    ELSE IF Len(f1) # Len(f2) THEN Raised
    ELSE LET classical_sim == Clip(CosPct(f1, f2), 0, 100)
             quantum_fidelity == Pow095(classical_sim)
         IN Score(Clip(9 * classical_sim + quantum_fidelity, 0, 1000))

\* AEQIPAlgorithm.calculate_similarity: both modes end in the inspired kernel.
calculate_similarity(f1, f2) == quantum_inspired_similarity(f1, f2)

\* AppwriteQuantumRetrieval._cosine_similarity: np.dot comes first.
cosine_similarity(vec1, vec2) ==
    IF Len(vec1) # Len(vec2) THEN Raised
    ELSE IF IsZeroNorm(vec1) \/ IsZeroNorm(vec2) THEN Score(0)
    ELSE Score((CosPct(vec1, vec2) + 100) * 5)


\* ---------------------------------------- the v3 kernel (src/ml/quantum)
\* Scores and sub-scores of the v3 kernel are kept in millionths; the
\* components of a normalised vector in thousandths.
MICRO == 1000000
MILLI == 1000

\* x / y truncated toward zero, y > 0.
TruncDiv(x, y) == IF x >= 0 THEN x \div y ELSE -((-x) \div y)

\* floor(sqrt(x)) for 0 <= x <= 1100 * 1100.
Isqrt(x) == CHOOSE k \in 0..1100 : k * k <= x /\ (k + 1) * (k + 1) > x

RECURSIVE SumTo(_, _)
SumTo(s, i) == IF i = 0 THEN 0 ELSE s[i] + SumTo(s, i - 1)

\* np.sum / the accumulation of np.dot and np.vdot.
Sum(s) == SumTo(s, Len(s))

\* v / (np.linalg.norm(v) + 1e-10), in thousandths: the all-zero vector stays
\* all-zero, no division fails.
normalize(v) ==
    [i \in 1..Len(v) |->
        IF NormSq(v) = 0 THEN 0
        ELSE LET m == Isqrt((v[i] * v[i] * MICRO) \div NormSq(v))
             IN IF v[i] < 0 THEN -m ELSE m]

\* np.dot(v1_norm, v2_norm) in thousandths, from the exact integer dot
\* product and norms (0 when a vector is all-zero).
CosMilli(v1, v2) ==
    IF IsZeroNorm(v1) \/ IsZeroNorm(v2) THEN 0
    ELSE LET d  == Dot(v1, v2)
             nn == NormSq(v1) * NormSq(v2)
             m  == CHOOSE k \in 0..MILLI :
                      /\ k * k * nn <= MICRO * d * d
                      /\ (k = MILLI \/ (k + 1) * (k + 1) * nn > MICRO * d * d)
         IN IF d < 0 THEN -m ELSE m

\* (np.dot(v1_norm, v2_norm) + 1) / 2
classical_sim_v3(v1, v2) == (CosMilli(v1, v2) * MILLI + MICRO) \div 2

\* The imaginary part of the state built on a normalised component a:
\* sqrt(max(0, 1 - a**2)) * phase_factor, phase_factor = 0.1.
phase_part(a) == Isqrt(IF MICRO - a * a < 0 THEN 0 ELSE MICRO - a * a) \div 10

\* np.abs(np.vdot(q1, q2)) ** 2 for the states of two normalised vectors.
overlap(n1, n2) ==
    LET re == Sum([i \in 1..Len(n1) |->
                      n1[i] * n2[i] + phase_part(n1[i]) * phase_part(n2[i])])
        im == Sum([i \in 1..Len(n1) |->
                      n1[i] * phase_part(n2[i]) - phase_part(n1[i]) * n2[i]])
        rk == TruncDiv(re, MILLI)
        ik == TruncDiv(im, MILLI)
    IN rk * rk + ik * ik

\* The fidelity kernel as it would be without its np.clip.
quantum_fidelity_kernel_unclipped(n1, n2) == overlap(n1, n2)

\* QuantumKernels.quantum_fidelity_kernel
quantum_fidelity_kernel(n1, n2) == Clip(overlap(n1, n2), 0, MICRO)

\* |q| of the state built on a normalised component, in thousandths.
modulus(a) == Isqrt(a * a + phase_part(a) * phase_part(a))

\* cos(phase1 - phase2) of the states of two components, in thousandths.
cos_phase_difference(a1, a2) ==
    Clip(TruncDiv((a1 * a2 + phase_part(a1) * phase_part(a2)) * MILLI,
                  modulus(a1) * modulus(a2)),
         -MILLI, MILLI)

\* A coherence that looks at the phases of the first vector only.
phase_coherence_kernel_one_sided(n1, n2) ==
    LET coherence == TruncDiv(Sum([i \in 1..Len(n1) |-> cos_phase_difference(n1[i], 0)])
                                  * MILLI, Len(n1))
    IN Clip((coherence + MICRO) \div 2, 0, MICRO)

\* QuantumKernels.phase_coherence_kernel: (mean(cos(phase1 - phase2)) + 1) / 2
phase_coherence_kernel(n1, n2) ==
    LET coherence == TruncDiv(Sum([i \in 1..Len(n1) |->
                                      cos_phase_difference(n1[i], n2[i])]) * MILLI,
                              Len(n1))
    IN Clip((coherence + MICRO) \div 2, 0, MICRO)

\* QuantumKernels.quantum_entanglement_measure: np.outer(v1, v2) has rank at
\* most one, so the normalised singular values are (1, 0, ..., 0) or all zero
\* and the entropy is 0.
quantum_entanglement_measure(n1, n2) == 0

\* The values of n_precision_qubits: the default 7, and one below it.
PrecisionBits == {6, 7}

\* sin(arcsin(sqrt(c)) * (1 + 1 / 2**P)) ** 2 clipped to [0, 1], in
\* millionths, for c = 0.00, 0.01, ..., 1.00.
AmplitudeTable6 ==
  << 0, 10313, 20625, 30934, 41242, 51547, 61849, 72149, 82447, 92743,
     103036, 113327, 123615, 133901, 144184, 154464, 164742, 175017,
     185290, 195559, 205826, 216091, 226352, 236610, 246865, 257118,
     267367, 277613, 287856, 298096, 308333, 318566, 328796, 339022,
     349245, 359464, 369680, 379892, 390100, 400304, 410504, 420700,
     430893, 441080, 451264, 461443, 471618, 481788, 491954, 502114,
     512270, 522421, 532566, 542706, 552841, 562970, 573093, 583210,
     593322, 603426, 613525, 623616, 633701, 643778, 653848, 663910,
     673965, 684011, 694048, 704076, 714095, 724104, 734103, 744091,
     754068, 764033, 773986, 783925, 793851, 803762, 813657, 823535,
     833395, 843235, 853055, 862851, 872623, 882367, 892081, 901761,
     911402, 920999, 930544, 940030, 949442, 958762, 967962, 976995,
     985770, 994053, 999397 >>

AmplitudeTable7 ==
  << 0, 10156, 20311, 30465, 40618, 50770, 60921, 71071, 81219, 91367,
     101513, 111658, 121801, 131944, 142085, 152225, 162364, 172501,
     182637, 192772, 202905, 213037, 223168, 233297, 243424, 253550,
     263675, 273798, 283920, 294040, 304158, 314275, 324390, 334503,
     344615, 354725, 364833, 374939, 385043, 395146, 405246, 415345,
     425442, 435536, 445628, 455719, 465807, 475892, 485976, 496057,
     506135, 516211, 526285, 536356, 546424, 556490, 566552, 576612,
     586668, 596722, 606772, 616819, 626863, 636903, 646939, 656972,
     667000, 677025, 687045, 697061, 707072, 717079, 727080, 737076,
     747066, 757051, 767029, 777001, 786966, 796924, 806874, 816816,
     826748, 836671, 846584, 856485, 866374, 876250, 886110, 895953,
     905778, 915580, 925358, 935105, 944816, 954481, 964087, 973610,
     983005, 992156, 999849 >>


\* AmplitudeEstimation.estimate_amplitude for n_precision_qubits = P.
\* np.arcsin outside [-1, 1] yields nan, which np.clip and the arithmetic
\* that follows pass on; nan is a value outside every interval.
NaN == -1

estimate_amplitude(P, classical_similarity, quantum_fidelity) ==
    LET combined == (classical_similarity + quantum_fidelity) \div 2
        c        == combined \div 10000 + 1
    IN IF combined < 0 \/ combined > MICRO THEN NaN
       ELSE IF P = 6 THEN AmplitudeTable6[c] ELSE AmplitudeTable7[c]

\* The result of a kernel call: a score with its sub-scores, or an exception.
Breakdown(similarity, classical, fidelity, coherence, ae, combined, entanglement) ==
    [ok |-> TRUE, similarity |-> similarity, classical |-> classical,
     quantum_fidelity |-> fidelity, phase_coherence |-> coherence,
     amplitude_estimated |-> ae, combined |-> combined, entanglement |-> entanglement,
     has_entanglement |-> FALSE]

KernelRaised == [ok |-> FALSE, similarity |-> 0, classical |-> 0, quantum_fidelity |-> 0,
                 phase_coherence |-> 0, amplitude_estimated |-> 0, combined |-> 0,
                 entanglement |-> 0, has_entanglement |-> FALSE]

\* A breakdown whose 'entanglement' key is always set.
report_entanglement_always(enable_entanglement, result, v1_norm, v2_norm) ==
    [result EXCEPT !.has_entanglement = TRUE,
                   !.entanglement = quantum_entanglement_measure(v1_norm, v2_norm)]

\* `if self.enable_entanglement:` the measure is computed and stored under
\* the key 'entanglement' of the breakdown.
report_entanglement(enable_entanglement, result, v1_norm, v2_norm) ==
    IF enable_entanglement
    THEN [result EXCEPT !.has_entanglement = TRUE,
                        !.entanglement = quantum_entanglement_measure(v1_norm, v2_norm)]
    ELSE result

\* AEQIPAlgorithm.calculate_similarity_with_breakdown (v3): np.dot raises on
\* vectors of different lengths; no test of the norms.
calculate_similarity_with_breakdown(P, enable_entanglement, features1, features2) ==
    IF Len(features1) # Len(features2) THEN KernelRaised
    ELSE LET v1_norm          == normalize(features1)
             v2_norm          == normalize(features2)
             classical_sim    == classical_sim_v3(features1, features2)
             quantum_fidelity == quantum_fidelity_kernel(v1_norm, v2_norm)
             phase_coherence  == phase_coherence_kernel(v1_norm, v2_norm)
             ae_similarity    == estimate_amplitude(P, classical_sim, quantum_fidelity)
             combined         == (70 * classical_sim + 20 * quantum_fidelity
                                     + 10 * phase_coherence) \div 100
             final_similarity == (8 * combined + 2 * ae_similarity) \div 10
         IN report_entanglement(
                enable_entanglement,
                Breakdown(IF ae_similarity = NaN THEN NaN ELSE Clip(final_similarity, 0, MICRO),
                          classical_sim, quantum_fidelity,
                          phase_coherence, ae_similarity, combined, 0),
                v1_norm, v2_norm)

\* calculate_similarity_with_breakdown over all precisions, both settings of
\* enable_entanglement and all input vectors, computed once.
BreakdownTable ==
    [P \in PrecisionBits |->
        [e \in BOOLEAN |->
            [f1 \in Vectors |->
                [f2 \in Vectors |-> calculate_similarity_with_breakdown(P, e, f1, f2)]]]]

\* AEQIPAlgorithm._quantum_inspired_similarity (v3): the same computation,
\* only the final score is returned.
quantum_inspired_similarity_v3(P, f1, f2) ==
    LET b == BreakdownTable[P][FALSE][f1][f2]
    IN [ok |-> b.ok, similarity |-> b.similarity]

\* The scores a run of the simulator can give: weighted_sum / (total_shots *
\* precision) over 1024 unseeded shots (two of them), in millionths.
SimulatorScores == {480000, 500000}

\* AEQIPAlgorithm._true_quantum_similarity (v3): with qiskit importable the
\* score is what the simulator measured, `shots`; otherwise the inspired one.
true_quantum_similarity_v3(P, qiskit, f1, f2, shots) ==
    IF qiskit THEN [ok |-> TRUE, similarity |-> shots]
    ELSE quantum_inspired_similarity_v3(P, f1, f2)

\* AEQIPAlgorithm.calculate_similarity (v3)
calculate_similarity_v3(use_quantum_inspired, P, qiskit, features1, features2, shots) ==
    IF use_quantum_inspired
    THEN quantum_inspired_similarity_v3(P, features1, features2)
    ELSE true_quantum_similarity_v3(P, qiskit, features1, features2, shots)

\* ----------------------------------------------------- the Appwrite ranker
\* A stored document: '$id'/image_id, category, features (the other fields
\* written by create_document are carried along unchanged and not modelled).
Document(id, category, features) ==
    [id |-> id, category |-> category, features |-> features]

\* list_documents as it would be without the Query.equal on the category.
list_documents_unfiltered(docs, category) == docs

\* list_documents with queries [Query.limit(5000)] plus Query.equal('category', c)
\* when a category is given: the matching documents, in collection order.
list_documents(docs, category) ==
    SelectSeq(docs, LAMBDA d : category = NoCategory \/ d.category = category)

\* The similarity of lines 177-187: the quantum kernel when
\* config.USE_QUANTUM_INSPIRED, else the classical cosine fallback.
similarity_of(use_quantum_inspired, query_features, doc_features) ==
    IF use_quantum_inspired
    THEN calculate_similarity(query_features, doc_features)
    ELSE cosine_similarity(query_features, doc_features)

\* similarity_of over all modes and input vectors, computed once.
SimilarityTable ==
    [u \in BOOLEAN |-> [q \in Vectors |-> [f \in Vectors |-> similarity_of(u, q, f)]]]

\* The similarity of one document.
doc_similarity(c, query_features, doc) ==
    SimilarityTable[c.USE_QUANTUM_INSPIRED][query_features][doc.features]

\* One entry of `similarities`.
Hit(doc, similarity) ==
    [image_id |-> doc.id, category |-> doc.category, similarity |-> similarity]

\* The loop as it would be with `similarity > confidence_threshold`.
RECURSIVE similarities_from_strict(_, _, _, _, _)
similarities_from_strict(c, docs, query_features, confidence_threshold, i) ==
    IF i > Len(docs) THEN << >>
    ELSE LET r    == doc_similarity(c, query_features, docs[i])
             rest == similarities_from_strict(c, docs, query_features, confidence_threshold, i + 1)
         IN IF r.ok /\ r.score > confidence_threshold
            THEN <<Hit(docs[i], r.score)>> \o rest
            ELSE rest

\* The loop of lines 171-208: a document whose scoring raises is skipped, a
\* document below the threshold is not appended.
RECURSIVE similarities_from(_, _, _, _, _)
similarities_from(c, docs, query_features, confidence_threshold, i) ==
    IF i > Len(docs) THEN << >>
    ELSE LET r    == doc_similarity(c, query_features, docs[i])
             rest == similarities_from(c, docs, query_features, confidence_threshold, i + 1)
         IN IF r.ok /\ r.score >= confidence_threshold
            THEN <<Hit(docs[i], r.score)>> \o rest
            ELSE rest

\* An insertion step that puts x in front of the elements with its own key,
\* as a sort that is not stable may.
RECURSIVE insert_desc_unstable(_, _)
insert_desc_unstable(sorted, x) ==
    IF sorted = << >> THEN <<x>>
    ELSE IF Head(sorted).similarity > x.similarity
         THEN <<Head(sorted)>> \o insert_desc_unstable(Tail(sorted), x)
         ELSE <<x>> \o sorted

\* list.sort(key=lambda x: x['similarity'], reverse=True) is stable: one
\* insertion step puts x behind every element whose key is >= its own.
RECURSIVE insert_desc(_, _)
insert_desc(sorted, x) ==
    IF sorted = << >> THEN <<x>>
    ELSE IF Head(sorted).similarity >= x.similarity
         THEN <<Head(sorted)>> \o insert_desc(Tail(sorted), x)
         ELSE <<x>> \o sorted

RECURSIVE sort_desc_from(_, _, _)
sort_desc_from(s, i, acc) ==
    IF i > Len(s) THEN acc ELSE sort_desc_from(s, i + 1, insert_desc(acc, s[i]))

\* The ranking as it would be without the sort of line 217.
sort_desc_missing(s) == s

sort_desc(s) == sort_desc_from(s, 1, << >>)

\* A slice that keeps one entry too many.
Truncate_off_by_one(s, top_k) == SubSeq(s, 1, IF top_k + 1 < Len(s) THEN top_k + 1 ELSE Len(s))

\* similarities[:top_k] for top_k >= 0.
Truncate(s, top_k) == SubSeq(s, 1, IF top_k < Len(s) THEN top_k ELSE Len(s))

\* AppwriteQuantumRetrieval.search_similar_images.
search_similar_images(c, docs, query_features, top_k, confidence_threshold, category) ==
    LET fetched      == list_documents(docs, category)
        similarities == similarities_from(c, fetched, query_features, confidence_threshold, 1)
    IN Truncate(sort_desc(similarities), top_k)


\* ------------------------------------------------------ the feature cache
\* Image files a client uploads, and what the feature extractor returns for
\* each.
Images == {"a.png", "b.png", "c.png", "z.png"}

extract_features(image) ==
    CASE image = "a.png" -> Embed(1, 0)
      [] image = "b.png" -> Embed(5, 1)
      [] image = "c.png" -> Embed(4, 1)
      [] image = "z.png" -> Embed(0, 0)

\* hashlib.md5(data).hexdigest(): a 128-bit digest, not injective; a.png and
\* b.png are two files with the same digest.
md5(data) ==
    CASE data \in {"a.png", "b.png"} -> "d1"
      [] data = "c.png" -> "d2"
      [] data = "z.png" -> "d3"

\* RedisCache._generate_key
generate_key(prefix, data) == <<prefix, md5(data)>>

CacheKeys == {generate_key("features", data) : data \in Images}

\* pickle.dumps and pickle.loads of a list of floats.
pickle_dumps(features) == <<"pickle", features>>
pickle_loads(cached) == cached[2]

\* Python's None (redis.get of a key that is not set, get_features on a
\* miss), and a value that is not None.
None == << >>
Some(x) == <<x>>

EmptyStore == [k \in CacheKeys |-> None]

\* The cache service of a process: "none" when get_cache_service() returns
\* None, "disconnected" when RedisCache.__init__ could not ping (self.redis is
\* None), "up" when it is connected, "down" when it is connected and Redis
\* has become unreachable (every operation raises).
RedisStates == {"none", "disconnected", "up", "down"}

\* redis.get(cache_key) and the `if cached:` branch of get_features.
cache_lookup(db, image_bytes) ==
    LET cached == db[generate_key("features", image_bytes)]
    IN IF cached # None THEN Some(pickle_loads(cached)) ELSE None

\* get_features without its except clause: the exception of redis.get
\* reaches the caller.
get_features_raising(r, db, image_bytes) ==
    IF r \in {"none", "disconnected"} THEN [raised |-> FALSE, value |-> None]
    ELSE IF r = "down" THEN [raised |-> TRUE, value |-> None]
    ELSE [raised |-> FALSE, value |-> cache_lookup(db, image_bytes)]

\* RedisCache.get_features: None without a connection, on a miss and on any
\* exception.
get_features(r, db, image_bytes) ==
    IF r # "up" THEN [raised |-> FALSE, value |-> None]
    ELSE [raised |-> FALSE, value |-> cache_lookup(db, image_bytes)]

\* set_features that reports True without writing the entry.
set_features_dropping(r, db, image_bytes, features) ==
    [raised |-> FALSE, value |-> r = "up", store |-> db]

\* RedisCache.set_features: the value it returns and the database after it.
set_features(r, db, image_bytes, features) ==
    IF r # "up" THEN [raised |-> FALSE, value |-> FALSE, store |-> db]
    ELSE [raised |-> FALSE, value |-> TRUE,
          store |-> [db EXCEPT ![generate_key("features", image_bytes)] =
                                   pickle_dumps(features)]]

\* Lines 141-155 of src/backend/backend_server.py: the features of the
\* uploaded file, from the cache or freshly extracted and then cached
\* (`if cache:` skips both cache calls when there is no cache service).
\* `cached` is the flag of line 177: features is never None there.
acquire_features(r, db, contents) ==
    LET got   == get_features(r, db, contents)
        fresh == extract_features(contents)
        put   == set_features(r, db, contents, fresh)
    IN IF got.raised
       THEN [raised |-> TRUE, features |-> fresh, hit |-> FALSE, cached |-> FALSE,
             store |-> db]
       ELSE IF got.value # None
       THEN [raised |-> FALSE, features |-> got.value[1], hit |-> TRUE,
             cached |-> r # "none", store |-> db]
       ELSE [raised |-> put.raised, features |-> fresh, hit |-> FALSE,
             cached |-> r # "none", store |-> put.store]

\* --------------------------------------------------- the Pinecone service
\* The id that upload_and_store gives a vector: result['public_id'] is
\* quantum-images/<category>/<filename stem>, with '/' replaced by '_'.
Filenames == {"x.jpg", "y.jpg"}
vector_id_of(category, filename) == <<category, filename>>
VectorIds == {vector_id_of(c, f) : c \in Categories, f \in Filenames}

\* The vectors the index holds or is queried with: the inputs padded or cut
\* to FEATURE_DIMENSION components.
KernelVectors ==
    {[i \in 1..FEATURE_DIMENSION |-> IF i <= Len(v) THEN v[i] ELSE 0] : v \in Vectors}

\* Padding without the cut of a longer vector.
pad_only(features) ==
    IF Len(features) >= FEATURE_DIMENSION THEN features
    ELSE [i \in 1..FEATURE_DIMENSION |-> IF i <= Len(features) THEN features[i] ELSE 0]

\* Lines 77-83 and 126-130: a vector of another length is padded with zeros
\* or cut to its first FEATURE_DIMENSION components.
pad_or_truncate(features) ==
    [i \in 1..FEATURE_DIMENSION |-> IF i <= Len(features) THEN features[i] ELSE 0]

\* index.upsert: the entry with this id is replaced in place, a new id is added.
index_upsert(idx, entry) ==
    IF \E i \in 1..Len(idx) : idx[i].id = entry.id
    THEN [i \in 1..Len(idx) |-> IF idx[i].id = entry.id THEN entry ELSE idx[i]]
    ELSE Append(idx, entry)

\* PineconeVectorService.upsert_vector, the new content of the index.
upsert_vector(idx, vector_id, features, category) ==
    index_upsert(idx, [id |-> vector_id, values |-> pad_or_truncate(features),
                       category |-> category])

\* The cosine metric of the index, in thousandths (0 for a zero vector).
cosine_metric(query, values) ==
    IF IsZeroNorm(query) \/ IsZeroNorm(values) THEN 0 ELSE CosPct(query, values) * 10

\* cosine_metric over the vectors of FEATURE_DIMENSION components, computed once.
CosineMetricTable ==
    [q \in KernelVectors |-> [v \in KernelVectors |-> cosine_metric(q, v)]]

\* The score the index gives a stored vector for a query.
pinecone_score(query, values) == CosineMetricTable[query][values]

Reverse(s) == [i \in 1..Len(s) |-> s[Len(s) + 1 - i]]

\* index.query(vector, top_k, filter, include_metadata): the top_k entries
\* that pass the metadata filter, by descending score.  The service fixes no
\* order among equal scores: `rev` picks one of two.
index_query(idx, vector, top_k, category_filter, rev) ==
    LET passing == SelectSeq(idx, LAMBDA e :
                       category_filter = NoCategory \/ e.category = category_filter)
        scored  == [i \in 1..Len(passing) |->
                       [image_id |-> passing[i].id, category |-> passing[i].category,
                        similarity |-> pinecone_score(vector, passing[i].values)]]
    IN Truncate(sort_desc(IF rev THEN Reverse(scored) ELSE scored), top_k)

\* PineconeVectorService.search: pad or cut the query, query the index, keep
\* the matches with score >= min_score.
search(idx, query_features, top_k, category_filter, min_score, rev) ==
    SelectSeq(index_query(idx, pad_or_truncate(query_features), top_k, category_filter, rev),
              LAMBDA m : m.similarity >= min_score)


\* ------------------------------------------------------- the upload handler
NoMatch == [image_id |-> 0, category |-> NoCategory, similarity |-> -1]

\* The loop of lines 145-152 of src/backend_server.py: high_confidence_results
\* collects the results at or above HIGH_CONFIDENCE_THRESHOLD.
high_confidence_results(c, similar_images) ==
    SelectSeq(similar_images, LAMBDA img : img.similarity >= c.HIGH_CONFIDENCE_THRESHOLD)

\* exact_match is assigned inside the high-confidence branch, so it is the
\* last result that is at or above both thresholds, or None.
exact_match_of(c, similar_images) ==
    LET exact == SelectSeq(high_confidence_results(c, similar_images),
                           LAMBDA img : img.similarity >= EXACT_MATCH_THRESHOLD)
    IN IF exact = << >> THEN NoMatch ELSE exact[Len(exact)]

\* The status chain as it would be if not_found tested high_confidence_results.
status_of_no_high(c, similar_images) ==
    IF high_confidence_results(c, similar_images) = << >> THEN "not_found"
    ELSE IF exact_match_of(c, similar_images) # NoMatch THEN "exact_match"
    ELSE "high_confidence"

\* The status chain as it would be without its low_confidence branch.
status_of_never_low(c, similar_images) ==
    IF similar_images = << >> THEN "not_found"
    ELSE IF exact_match_of(c, similar_images) # NoMatch THEN "exact_match"
    ELSE "high_confidence"

\* The status chain of lines 154-166.
status_of(c, similar_images) ==
    IF similar_images = << >> THEN "not_found"
    ELSE IF exact_match_of(c, similar_images) # NoMatch THEN "exact_match"
    ELSE IF high_confidence_results(c, similar_images) # << >> THEN "high_confidence"
    ELSE "low_confidence"

\* ------------------------------------------------------------ state machine
DefaultConfig == [HIGH_CONFIDENCE_THRESHOLD |-> HIGH_CONFIDENCE_DEFAULT,
                  USE_QUANTUM_INSPIRED |-> TRUE,
                  credentials |-> TRUE]

\* The environments: the defaults, and each setting changed alone.
Configs ==
    {c \in [HIGH_CONFIDENCE_THRESHOLD : HighThresholds, USE_QUANTUM_INSPIRED : BOOLEAN,
            credentials : BOOLEAN] :
        \/ c = DefaultConfig
        \/ c = [DefaultConfig EXCEPT !.HIGH_CONFIDENCE_THRESHOLD = 990]
        \/ c = [DefaultConfig EXCEPT !.USE_QUANTUM_INSPIRED = FALSE]
        \/ c = [DefaultConfig EXCEPT !.credentials = FALSE]}

\* Thresholds of a direct call: both defaults and the exact-match score.
Thresholds == {GOOD_CONFIDENCE_THRESHOLD, DEFAULT_CONFIDENCE_THRESHOLD, EXACT_MATCH_THRESHOLD}

\* top_k of a direct call.
TopKs == 0..MaxTopK

\* What the call being answered was given and what it returns; NoResponse
\* while no call is being answered.
Response(op, query, top_k, threshold, category, outcome, results, status, exact, stored) ==
    [op |-> op, query |-> query, top_k |-> top_k, threshold |-> threshold,
     category |-> category, outcome |-> outcome, results |-> results,
     status |-> status, exact_match |-> exact, stored_id |-> stored,
     image |-> "", hit |-> FALSE, cached |-> FALSE]

\* The response of a handler that obtained its features from the uploaded
\* file `contents` through acquire_features.
FromUpload(response, contents, acquired) ==
    [response EXCEPT !.image = contents, !.hit = acquired.hit, !.cached = acquired.cached]

NoResponse == Response("none", << >>, 0, 0, NoCategory, "ok", << >>, "", NoMatch, 0)

\* An AEQIPAlgorithm object: scheme "A" is src/ml/quantum/ae_qip_v3.py, scheme
\* "B" is src/src/quantum/ae_qip_algorithm.py; qiskit tells whether the
\* imports of _true_quantum_similarity succeed where it runs.
Algo(scheme, use_quantum_inspired, n_precision_qubits, qiskit) ==
    [scheme |-> scheme, use_quantum_inspired |-> use_quantum_inspired,
     n_precision_qubits |-> n_precision_qubits, qiskit |-> qiskit,
     enable_entanglement |-> FALSE]

\* The same object constructed with enable_entanglement=True.
Entangled(a) == [a EXCEPT !.enable_entanglement = TRUE]

NoAlgo == Algo("none", TRUE, 7, FALSE)

\* The phases of a server process.
Process(phase, validated) == [phase |-> phase, validated |-> validated]

\* Config.validate: the required variables (the credentials) are all set.
validate(c) == c.credentials

\* __main__ of src/backend/backend_server.py: uvicorn.run and nothing else.
pinecone_main(c) == Process("serving", FALSE)

\* __main__ of src/backend_server.py: config.validate(), exit(1) on
\* ValueError, else uvicorn.run.
main(c) == IF validate(c) THEN Process("serving", TRUE) ELSE Process("stopped", FALSE)

\* The Pinecone server reads neither HIGH_CONFIDENCE_THRESHOLD nor
\* USE_QUANTUM_INSPIRED, so it runs under their defaults.
Init ==
    /\ deployment \in {"appwrite", "pinecone"}
    /\ cfg \in Configs
    /\ deployment = "pinecone" =>
          cfg \in {DefaultConfig, [DefaultConfig EXCEPT !.credentials = FALSE]}
    /\ documents = << >>
    /\ index = << >>
    /\ resp = NoResponse
    /\ process = Process("starting", FALSE)
    /\ algo = NoAlgo
    /\ calls = << >>
    /\ redis = "none"
    /\ store = EmptyStore

\* python backend_server.py, the Appwrite server.
Startup ==
    /\ deployment = "appwrite"
    /\ process.phase = "starting"
    /\ process' = main(cfg)
    /\ UNCHANGED <<deployment, cfg, documents, index, resp, algo, calls, redis, store>>

\* python backend/backend_server.py, the Pinecone server.
PineconeStartup ==
    /\ deployment = "pinecone"
    /\ process.phase = "starting"
    /\ process' = pinecone_main(cfg)
    /\ UNCHANGED <<deployment, cfg, documents, index, resp, algo, calls, redis, store>>

\* AppwriteQuantumRetrieval.upload_image: a document with a fresh id is added.
RetrievalUploadImage(category, features) ==
    /\ deployment = "appwrite"
    /\ resp = NoResponse
    /\ Len(documents) < MaxDocs
    /\ documents' = Append(documents, Document(Len(documents) + 1, category, features))
    /\ resp' = Response("retrieval.upload_image", features, 0, 0, category, "ok", << >>, "",
                        NoMatch, Len(documents) + 1)
    /\ UNCHANGED <<deployment, cfg, index, process, algo, calls, redis, store>>

\* A direct call of AppwriteQuantumRetrieval.search_similar_images.
\* A search that consumes the first record it listed.
SearchSimilarImages_consuming(query_features, top_k, confidence_threshold, category) ==
    /\ deployment = "appwrite"
    /\ resp = NoResponse
    /\ resp' = Response("search_similar_images", query_features, top_k, confidence_threshold,
                        category, "ok",
                        search_similar_images(cfg, documents, query_features, top_k,
                                              confidence_threshold, category),
                        "", NoMatch, 0)
    /\ documents' = IF documents = << >> THEN documents ELSE Tail(documents)
    /\ UNCHANGED <<deployment, cfg, index, process, algo, calls, redis, store>>

SearchSimilarImages(query_features, top_k, confidence_threshold, category) ==
    /\ deployment = "appwrite"
    /\ resp = NoResponse
    /\ resp' = Response("search_similar_images", query_features, top_k, confidence_threshold,
                        category, "ok",
                        search_similar_images(cfg, documents, query_features, top_k,
                                              confidence_threshold, category),
                        "", NoMatch, 0)
    /\ UNCHANGED <<deployment, cfg, documents, index, process, algo, calls, redis, store>>

\* POST /api/upload of src/backend_server.py: search, then classify.
UploadImage(features_list) ==
    /\ deployment = "appwrite"
    /\ resp = NoResponse
    /\ LET similar_images == search_similar_images(cfg, documents, features_list, HANDLER_TOP_K,
                                                   GOOD_CONFIDENCE_THRESHOLD, NoCategory)
       IN resp' = Response("upload_image", features_list, HANDLER_TOP_K,
                           GOOD_CONFIDENCE_THRESHOLD, NoCategory, "ok", similar_images,
                           status_of(cfg, similar_images),
                           exact_match_of(cfg, similar_images), 0)
    /\ UNCHANGED <<deployment, cfg, documents, index, process, algo, calls, redis, store>>

\* POST /api/upload-and-store of src/backend_server.py: create the document,
\* then search with the same features, over all categories.
UploadAndStore(features_list, category) ==
    /\ deployment = "appwrite"
    /\ resp = NoResponse
    /\ Len(documents) < MaxDocs
    /\ LET file_id == Len(documents) + 1
           stored  == Append(documents, Document(file_id, category, features_list))
       IN /\ documents' = stored
          /\ resp' = Response("upload_and_store", features_list, HANDLER_TOP_K,
                              GOOD_CONFIDENCE_THRESHOLD, NoCategory, "ok",
                              search_similar_images(cfg, stored, features_list, HANDLER_TOP_K,
                                                    GOOD_CONFIDENCE_THRESHOLD, NoCategory),
                              "stored", NoMatch, file_id)
    /\ UNCHANGED <<deployment, cfg, index, process, algo, calls, redis, store>>

\* POST /api/search of src/backend_server.py: the length test raises
\* HTTPException, which the handler turns into a 500.
SearchByFeatures(features) ==
    /\ deployment = "appwrite"
    /\ resp = NoResponse
    /\ resp' = IF Len(features) # FEATURE_DIMENSION
               THEN Response("search_by_features", features, HANDLER_TOP_K,
                             GOOD_CONFIDENCE_THRESHOLD, NoCategory, "error", << >>, "",
                             NoMatch, 0)
               ELSE Response("search_by_features", features, HANDLER_TOP_K,
                             GOOD_CONFIDENCE_THRESHOLD, NoCategory, "ok",
                             search_similar_images(cfg, documents, features, HANDLER_TOP_K,
                                                   GOOD_CONFIDENCE_THRESHOLD, NoCategory),
                             "", NoMatch, 0)
    /\ UNCHANGED <<deployment, cfg, documents, index, process, algo, calls, redis, store>>

\* The deployments of src/backend/backend_server.py: with an empty index and
\* no cache service, with a Redis cache, and with a populated index.
PineconeServers == {"pinecone", "pinecone-cached", "pinecone-populated"}

\* The number of vectors the index may hold: a populated index starts with
\* HANDLER_TOP_K vectors.
Capacity == IF deployment = "pinecone-populated" THEN HANDLER_TOP_K + MaxDocs ELSE MaxDocs

\* A direct call of PineconeVectorService.upsert_vector, on a service whose
\* constructor has succeeded.
UpsertVector(vector_id, features) ==
    /\ deployment = "pinecone"
    /\ resp = NoResponse
    /\ cfg.credentials
    /\ (\E i \in 1..Len(index) : index[i].id = vector_id) \/ Len(index) < MaxDocs
    /\ index' = upsert_vector(index, vector_id, features, vector_id[1])
    /\ resp' = Response("upsert_vector", features, 0, 0, vector_id[1], "ok", << >>, "",
                        NoMatch, vector_id)
    /\ UNCHANGED <<deployment, cfg, documents, process, algo, calls, redis, store>>

\* A direct call of PineconeVectorService.search, on a service whose
\* constructor has succeeded.
PineconeSearch(query_features, top_k, category_filter, min_score, rev) ==
    /\ deployment = "pinecone"
    /\ resp = NoResponse
    /\ cfg.credentials
    /\ resp' = Response("search", query_features, top_k, min_score, category_filter, "ok",
                        search(index, query_features, top_k, category_filter, min_score, rev),
                        "", NoMatch, 0)
    /\ UNCHANGED <<deployment, cfg, documents, index, process, algo, calls, redis, store>>

\* The answer of a handler of src/backend/backend_server.py whose
\* get_pinecone_service() raises: the except clause turns it into a 500.
PineconeError(op, features, category) ==
    Response(op, features, HANDLER_TOP_K, GOOD_CONFIDENCE_THRESHOLD, category, "error",
             << >>, "", NoMatch, 0)

\* POST /api/upload of src/backend/backend_server.py.
PineconeUploadImage(contents, rev) ==
    /\ deployment \in PineconeServers
    /\ resp = NoResponse
    /\ LET acquired == acquire_features(redis, store, contents)
           features == acquired.features
       IN /\ store' = acquired.store
          /\ resp' = IF acquired.raised \/ ~cfg.credentials
                     THEN FromUpload(PineconeError("pinecone.upload_image", features,
                                                   NoCategory),
                                     contents, [acquired EXCEPT !.cached = FALSE])
                     ELSE FromUpload(
                              Response("pinecone.upload_image", features, HANDLER_TOP_K,
                                       GOOD_CONFIDENCE_THRESHOLD, NoCategory, "ok",
                                       search(index, features, HANDLER_TOP_K, NoCategory,
                                              GOOD_CONFIDENCE_THRESHOLD, rev),
                                       "", NoMatch, 0),
                              contents, acquired)
    /\ UNCHANGED <<deployment, cfg, documents, index, process, algo, calls, redis>>

\* What can fail in one request of upload_and_store: nothing, the upload to
\* Cloudinary (upload_image re-raises), or index.upsert (upsert_vector logs
\* the exception and returns False).
Faults == {"none", "cloudinary", "upsert"}

\* POST /api/upload-and-store of src/backend/backend_server.py: upload to
\* Cloudinary, upsert under the id derived from category and filename (the
\* return value of upsert_vector is not read), search that category, and
\* leave the vector's own id out of the response.
PineconeUploadAndStore(contents, filename, category, rev, fault) ==
    /\ deployment \in PineconeServers
    /\ resp = NoResponse
    /\ LET acquired  == acquire_features(redis, store, contents)
           features  == acquired.features
           vector_id == vector_id_of(category, filename)
           stored    == IF fault = "upsert" THEN index
                        ELSE upsert_vector(index, vector_id, features, category)
           matches   == search(stored, features, HANDLER_TOP_K, category,
                               GOOD_CONFIDENCE_THRESHOLD, rev)
           raised    == acquired.raised \/ ~cfg.credentials \/ fault = "cloudinary"
       IN /\ (\E i \in 1..Len(index) : index[i].id = vector_id) \/ Len(index) < Capacity
          /\ store' = acquired.store
          /\ index' = IF raised THEN index ELSE stored
          /\ resp' = IF raised
                     THEN FromUpload(PineconeError("pinecone.upload_and_store", features,
                                                   category),
                                     contents, [acquired EXCEPT !.cached = FALSE])
                     ELSE FromUpload(
                              Response("pinecone.upload_and_store", features, HANDLER_TOP_K,
                                       GOOD_CONFIDENCE_THRESHOLD, category, "ok",
                                       SelectSeq(matches, LAMBDA m : m.image_id # vector_id),
                                       "", NoMatch, vector_id),
                              contents, [acquired EXCEPT !.cached = FALSE])
    /\ UNCHANGED <<deployment, cfg, documents, process, algo, calls, redis>>

\* The response is delivered to the caller; the server takes the next call.
Return ==
    /\ resp # NoResponse
    /\ resp' = NoResponse
    /\ UNCHANGED <<deployment, cfg, documents, index, process, algo, calls, redis, store>>

\* The server of deployment d is up and idle, and takes a call.
Serving(d) == deployment = d /\ process.phase = "serving" /\ resp = NoResponse

Next ==
    \/ Startup
    \/ PineconeStartup
    \/ /\ Serving("appwrite")
       /\ \/ \E c \in Categories, f \in StoredVectors : RetrievalUploadImage(c, f)
          \/ \E q \in Vectors, k \in TopKs, t \in Thresholds,
                c \in CategoryFilters : SearchSimilarImages(q, k, t, c)
          \/ \E f \in ExtractedVectors : UploadImage(f)
          \/ \E f \in ExtractedVectors, c \in Categories : UploadAndStore(f, c)
          \/ \E f \in Vectors : SearchByFeatures(f)
    \/ /\ Serving("pinecone")
       /\ \/ \E id \in VectorIds, f \in StoredVectors \cup LongVectors : UpsertVector(id, f)
          \/ \E q \in Vectors, k \in TopKs, c \in CategoryFilters,
                t \in Thresholds, rev \in BOOLEAN : PineconeSearch(q, k, c, t, rev)
          \/ \E image \in Images, rev \in BOOLEAN : PineconeUploadImage(image, rev)
          \/ \E image \in Images, n \in Filenames, c \in Categories, rev \in BOOLEAN,
                fault \in Faults : PineconeUploadAndStore(image, n, c, rev, fault)
    \/ Return

Spec == Init /\ [][Next]_vars

\* ------------------------------------------------- the kernel as a library
\* The objects a caller can construct (qiskit matters to scheme A in true
\* quantum mode only; scheme B has no precision parameter).
Algos ==
    {Algo("A", TRUE, P, FALSE) : P \in PrecisionBits}
        \cup {Entangled(Algo("A", TRUE, P, FALSE)) : P \in PrecisionBits}
        \cup {Algo("A", FALSE, P, q) : P \in PrecisionBits, q \in BOOLEAN}
        \cup {Algo("B", i, 7, FALSE) : i \in BOOLEAN}

\* The retrieval object whose _cosine_similarity a caller uses directly.
CosineFallback == Algo("cosine", TRUE, 7, FALSE)

\* The vectors a library caller passes.
LibraryVectors == {Embed(1, 0), Embed(5, 1), Embed(0, 0)} \cup SignedVectors \cup ForeignVectors

\* The simulator runs in scheme A's true quantum mode when qiskit imports.
SimulatorRuns == algo.scheme = "A" /\ ~algo.use_quantum_inspired /\ algo.qiskit

\* What the simulator may measure in the current call (0: it does not run).
Shots == IF SimulatorRuns THEN SimulatorScores ELSE {0}

\* One call of the object in `calls`.
KernelCall(method, f1, f2, result) ==
    [method |-> method, f1 |-> f1, f2 |-> f2, result |-> result]

\* A score in thousandths, or the exception, as a result in millionths
\* without sub-scores.
ScoreOnly(r) ==
    IF r.ok THEN Breakdown(r.score * MILLI, 0, 0, 0, 0, 0, 0) ELSE KernelRaised

\* `calls` keeps the latest two calls.
remember(log, call) == IF Len(log) < 2 THEN Append(log, call) ELSE <<log[2], call>>

KernelInit ==
    /\ deployment = "library"
    /\ cfg = DefaultConfig
    /\ documents = << >>
    /\ index = << >>
    /\ resp = NoResponse
    /\ process = Process("none", FALSE)
    /\ algo \in Algos \cup {CosineFallback}
    /\ calls = << >>
    /\ redis = "none"
    /\ store = EmptyStore

\* algo.calculate_similarity(features1, features2); `shots` is what the
\* simulator measures if it runs.  SimilarityTable[TRUE] is scheme B's
\* calculate_similarity, SimilarityTable[FALSE] the cosine fallback.
CalculateSimilarity(features1, features2, shots) ==
    /\ deployment = "library"
    /\ algo.scheme \in {"A", "B"}
    /\ LET r == IF algo.scheme = "A"
                THEN LET s == calculate_similarity_v3(algo.use_quantum_inspired,
                                                      algo.n_precision_qubits, algo.qiskit,
                                                      features1, features2, shots)
                     IN IF s.ok THEN Breakdown(s.similarity, 0, 0, 0, 0, 0, 0)
                        ELSE KernelRaised
                ELSE ScoreOnly(SimilarityTable[TRUE][features1][features2])
       IN calls' = remember(calls, KernelCall("calculate_similarity", features1, features2, r))
    /\ UNCHANGED <<deployment, cfg, documents, index, resp, process, algo, redis, store>>

\* algo.calculate_similarity_with_breakdown(features1, features2), v3 only.
CalculateSimilarityWithBreakdown(features1, features2) ==
    /\ deployment = "library"
    /\ algo.scheme = "A"
    /\ calls' = remember(calls,
                   KernelCall("calculate_similarity_with_breakdown", features1, features2,
                              BreakdownTable[algo.n_precision_qubits][algo.enable_entanglement]
                                           [features1][features2]))
    /\ UNCHANGED <<deployment, cfg, documents, index, resp, process, algo, redis, store>>

\* AppwriteQuantumRetrieval._cosine_similarity(vec1, vec2), the fallback.
CosineSimilarity(vec1, vec2) ==
    /\ deployment = "library"
    /\ algo = CosineFallback
    /\ calls' = remember(calls, KernelCall("_cosine_similarity", vec1, vec2,
                                           ScoreOnly(SimilarityTable[FALSE][vec1][vec2])))
    /\ UNCHANGED <<deployment, cfg, documents, index, resp, process, algo, redis, store>>

KernelNext ==
    \/ \E f1 \in LibraryVectors, f2 \in LibraryVectors, shots \in Shots :
          CalculateSimilarity(f1, f2, shots)
    \/ \E f1 \in LibraryVectors, f2 \in LibraryVectors :
          CalculateSimilarityWithBreakdown(f1, f2)
    \/ \E f1 \in LibraryVectors, f2 \in LibraryVectors : CosineSimilarity(f1, f2)

KernelSpec == KernelInit /\ [][KernelNext]_vars


\* ------------------------------------- the Pinecone server, index populated
\* File names of images stored before the server is observed.
BulkFilenames ==
    <<"b01.jpg", "b02.jpg", "b03.jpg", "b04.jpg", "b05.jpg",
      "b06.jpg", "b07.jpg", "b08.jpg", "b09.jpg", "b10.jpg">>

\* An index of n healthcare images with the same features.
PopulatedIndex(n, values) ==
    [i \in 1..n |-> [id |-> vector_id_of("healthcare", BulkFilenames[i]),
                     values |-> values, category |-> "healthcare"]]

\* The server is up, without a cache service; the index holds HANDLER_TOP_K
\* images or one less.
BulkInit ==
    /\ deployment = "pinecone-populated"
    /\ cfg = DefaultConfig
    /\ documents = << >>
    /\ index \in {PopulatedIndex(n, Embed(1, 0)) : n \in {HANDLER_TOP_K - 1, HANDLER_TOP_K}}
    /\ resp = NoResponse
    /\ process = pinecone_main(cfg)
    /\ algo = NoAlgo
    /\ calls = << >>
    /\ redis = "none"
    /\ store = EmptyStore

\* The images uploaded to the populated server.
BulkImages == {"a.png", "b.png"}

BulkNext ==
    \/ \E image \in BulkImages, rev \in BOOLEAN : PineconeUploadImage(image, rev)
    \/ \E image \in BulkImages, n \in Filenames, c \in Categories, rev \in BOOLEAN,
          fault \in Faults : PineconeUploadAndStore(image, n, c, rev, fault)
    \/ Return

BulkSpec == BulkInit /\ [][BulkNext]_vars

\* -------------------------------------------------- the cache in service
\* What a direct caller of RedisCache passes.
CacheData == {"a.png", "b.png", "c.png"}
CacheValues == {Embed(1, 0), Embed(5, 1)}

\* One call of the cache service, or the expiry of an entry, in `calls`:
\* `connection` is the state of the service when the call was made.
CacheCall(method, data, features, connection, outcome) ==
    [method |-> method, data |-> data, features |-> features, connection |-> connection,
     raised |-> outcome.raised, value |-> outcome.value]

\* The index of the Pinecone server that runs with the cache.
CachedIndexes == {PopulatedIndex(1, v) : v \in {Embed(1, 0), Embed(4, 1)}}

\* A RedisCache object used directly (get_cache()), or the Pinecone server
\* with its cache service; the Redis database is empty.
CacheInit ==
    /\ deployment \in {"cache", "pinecone-cached"}
    /\ cfg = DefaultConfig
    /\ documents = << >>
    /\ index \in IF deployment = "cache" THEN {<< >>} ELSE CachedIndexes
    /\ resp = NoResponse
    /\ process = IF deployment = "cache" THEN Process("none", FALSE) ELSE pinecone_main(cfg)
    /\ algo = NoAlgo
    /\ calls = << >>
    /\ redis \in IF deployment = "cache" THEN {"disconnected", "up"}
                 ELSE {"none", "disconnected", "up"}
    /\ store = EmptyStore

\* Redis becomes unreachable for a connected service; the database is kept.
RedisFails ==
    /\ resp = NoResponse
    /\ redis = "up"
    /\ redis' = "down"
    /\ UNCHANGED <<deployment, cfg, documents, index, resp, process, algo, calls, store>>

RedisRecovers ==
    /\ resp = NoResponse
    /\ redis = "down"
    /\ redis' = "up"
    /\ UNCHANGED <<deployment, cfg, documents, index, resp, process, algo, calls, store>>

\* The ttl of setex has passed: Redis drops the entry.
Expire(cache_key) ==
    /\ resp = NoResponse
    /\ store[cache_key] # None
    /\ store' = [store EXCEPT ![cache_key] = None]
    /\ calls' = IF deployment = "cache"
                THEN remember(calls, CacheCall("expire", cache_key[2], << >>, redis,
                                               [raised |-> FALSE, value |-> None]))
                ELSE calls
    /\ UNCHANGED <<deployment, cfg, documents, index, resp, process, algo, redis>>

\* cache.get_features(image_bytes)
GetFeatures(image_bytes) ==
    /\ deployment = "cache"
    /\ calls' = remember(calls, CacheCall("get_features", image_bytes, << >>, redis,
                                          get_features(redis, store, image_bytes)))
    /\ UNCHANGED <<deployment, cfg, documents, index, resp, process, algo, redis, store>>

\* cache.set_features(image_bytes, features)
SetFeatures(image_bytes, features) ==
    /\ deployment = "cache"
    /\ LET put == set_features(redis, store, image_bytes, features)
       IN /\ store' = put.store
          /\ calls' = remember(calls, CacheCall("set_features", image_bytes, features, redis,
                                                [raised |-> put.raised,
                                                 value |-> Some(put.value)]))
    /\ UNCHANGED <<deployment, cfg, documents, index, resp, process, algo, redis>>

CacheNext ==
    \/ RedisFails
    \/ RedisRecovers
    \/ \E k \in CacheKeys : Expire(k)
    \/ \E data \in CacheData : GetFeatures(data)
    \/ \E data \in CacheData, f \in CacheValues : SetFeatures(data, f)
    \/ \E image \in Images, rev \in BOOLEAN : PineconeUploadImage(image, rev)
    \/ Return

CacheSpec == CacheInit /\ [][CacheNext]_vars

\* ------------------------------------------------------------------ claims
\* The calls that return the ranking of search_similar_images as it is.
AppwriteRankOps == {"search_similar_images", "upload_image", "search_by_features",
                    "upload_and_store"}
\* The calls that return the matches of PineconeVectorService.search as they are.
PineconeRankOps == {"search", "pinecone.upload_image"}

AppwriteRanked == resp.op \in AppwriteRankOps /\ resp.outcome = "ok"
PineconeRanked == resp.op \in PineconeRankOps /\ resp.outcome = "ok"

\* Document i passes the category filter of the answered call.
PassesFilter(category) == resp.category = NoCategory \/ category = resp.category

\* Document i is a qualifying candidate of the answered Appwrite call: it
\* passes the filter, its scoring succeeds and its score meets the threshold.
QualifiesA(i) ==
    /\ PassesFilter(documents[i].category)
    /\ doc_similarity(cfg, resp.query, documents[i]).ok
    /\ doc_similarity(cfg, resp.query, documents[i]).score >= resp.threshold

ScoreA(i) == doc_similarity(cfg, resp.query, documents[i]).score

\* The same for entry i of the Pinecone index.
ScoreP(i) == pinecone_score(pad_or_truncate(resp.query), index[i].values)
QualifiesP(i) == PassesFilter(index[i].category) /\ ScoreP(i) >= resp.threshold

Returned(id) == \E r \in 1..Len(resp.results) : resp.results[r].image_id = id

Min(a, b) == IF a < b THEN a ELSE b

\* Position of the document with this id in the collection.
PosOf(id) == CHOOSE p \in 1..Len(documents) : documents[p].id = id

\* C1: the results of search_similar_images are in non-increasing order of
\* similarity, and two results with equal similarity are in the order their
\* documents have in the candidate set.
C1_SortedStable ==
    AppwriteRanked =>
        \A i, j \in 1..Len(resp.results) :
            i < j =>
                /\ resp.results[i].similarity >= resp.results[j].similarity
                /\ resp.results[i].similarity = resp.results[j].similarity
                      => PosOf(resp.results[i].image_id) < PosOf(resp.results[j].image_id)

\* C1 witness: a ranking that holds two results with the same nonzero score.
C1_Witness ==
    /\ resp.op = "search_similar_images"
    /\ Len(resp.results) = 2
    /\ resp.results[1].similarity = resp.results[2].similarity
    /\ resp.results[1].similarity > 0

\* C2: a ranking has min(top_k, Q) results, Q the number of qualifying
\* candidates, and no qualifying candidate that was left out scores strictly
\* higher than a returned one; for the Appwrite ranker and for Pinecone search.
C2_TopK ==
    /\ AppwriteRanked =>
          LET Q == {i \in 1..Len(documents) : QualifiesA(i)}
          IN /\ Len(resp.results) = Min(resp.top_k, Cardinality(Q))
             /\ \A i \in Q : ~Returned(documents[i].id) =>
                    \A r \in 1..Len(resp.results) : ScoreA(i) <= resp.results[r].similarity
    /\ PineconeRanked =>
          LET Q == {i \in 1..Len(index) : QualifiesP(i)}
          IN /\ Len(resp.results) = Min(resp.top_k, Cardinality(Q))
             /\ \A i \in Q : ~Returned(index[i].id) =>
                    \A r \in 1..Len(resp.results) : ScoreP(i) <= resp.results[r].similarity

\* C2 witness: more candidates qualify than top_k admits, and the one that is
\* returned scores strictly higher than the one left out, which comes first
\* in the candidate set.
C2_Witness ==
    /\ resp.op = "search_similar_images"
    /\ resp.top_k = 1
    /\ Len(resp.results) = 1
    /\ Len(documents) = 2
    /\ QualifiesA(1) /\ QualifiesA(2)
    /\ resp.results[1].image_id = documents[2].id
    /\ ScoreA(1) < ScoreA(2)

\* C3: every result scores at least min_score, and a candidate that passes the
\* filter, is scored and scores at least min_score is either returned or the
\* ranking is full (top_k results); for both search paths.
C3_Threshold ==
    /\ (AppwriteRanked \/ PineconeRanked) =>
          \A r \in 1..Len(resp.results) : resp.results[r].similarity >= resp.threshold
    /\ AppwriteRanked =>
          \A i \in 1..Len(documents) :
              QualifiesA(i) => Returned(documents[i].id) \/ Len(resp.results) = resp.top_k
    /\ PineconeRanked =>
          \A i \in 1..Len(index) :
              QualifiesP(i) => Returned(index[i].id) \/ Len(resp.results) = resp.top_k

\* C3 witness: of two documents, one scores exactly the nonzero threshold
\* and is returned, the other scores less and is left out.
C3_Witness ==
    /\ resp.op = "search_similar_images"
    /\ resp.threshold > 0
    /\ Len(documents) = 2
    /\ Len(resp.results) = 1
    /\ resp.top_k = 2
    /\ resp.results[1].similarity = resp.threshold


\* C4: with a category filter every result carries that category, and with
\* no filter a candidate of any category that is scored and meets the
\* threshold is returned unless the ranking is full; for both search paths
\* and for the Pinecone upload-and-store response.
C4_CategoryFilter ==
    /\ (AppwriteRanked \/ PineconeRanked \/ resp.op = "pinecone.upload_and_store") =>
          (resp.category # NoCategory =>
              \A r \in 1..Len(resp.results) : resp.results[r].category = resp.category)
    /\ (AppwriteRanked /\ resp.category = NoCategory) =>
          \A i \in 1..Len(documents) :
              (doc_similarity(cfg, resp.query, documents[i]).ok /\ ScoreA(i) >= resp.threshold)
                  => Returned(documents[i].id) \/ Len(resp.results) = resp.top_k
    /\ (PineconeRanked /\ resp.category = NoCategory) =>
          \A i \in 1..Len(index) :
              ScoreP(i) >= resp.threshold
                  => Returned(index[i].id) \/ Len(resp.results) = resp.top_k

\* C4 witness: a filtered search returns a result although a document of
\* another category scores strictly higher.
C4_Witness ==
    /\ resp.op = "search_similar_images"
    /\ resp.category # NoCategory
    /\ Len(resp.results) = 1
    /\ \E i \in 1..Len(documents) :
          /\ documents[i].category # resp.category
          /\ doc_similarity(cfg, resp.query, documents[i]).ok
          /\ ScoreA(i) > resp.results[1].similarity

\* C5: the similar-image results of an upload-and-store call of a (nonzero)
\* feature vector never contain the id of the record that call has just stored.
C5_SelfExcluded ==
    (resp.op \in {"upload_and_store", "pinecone.upload_and_store"} /\ ~IsZeroNorm(resp.query)) =>
        ~Returned(resp.stored_id)

\* The answered call is an Appwrite search for at least one result whose
\* query is the feature vector of stored document i, which its filter admits,
\* and whose threshold is one of the `defaults`.
SameVectorSearch(i, defaults) ==
    /\ AppwriteRanked
    /\ resp.threshold \in defaults
    /\ resp.top_k >= 1
    /\ documents[i].features = resp.query
    /\ PassesFilter(documents[i].category)

\* The same, for the embedding of an image (configured length, nonzero) and
\* the threshold every handler passes, GOOD_CONFIDENCE_THRESHOLD.
SameImageSearch(i) ==
    /\ SameVectorSearch(i, {GOOD_CONFIDENCE_THRESHOLD})
    /\ resp.query \in ExtractedVectors
    /\ ~IsZeroNorm(resp.query)

\* The documents that precede document i among the fetched candidates and
\* get exactly its score.
TiedBefore(i) ==
    {j \in 1..(i - 1) : /\ PassesFilter(documents[j].category)
                        /\ doc_similarity(cfg, resp.query, documents[j]).ok
                        /\ ScoreA(j) = ScoreA(i)}

\* C6 as stated: a search whose query equals the vector of a stored document
\* returns that document, first unless an equal-scoring document precedes it.
C6_SameImageFirst ==
    \A i \in 1..Len(documents) :
        SameImageSearch(i) =>
            /\ Returned(documents[i].id)
            /\ resp.results[1].image_id = documents[i].id \/ TiedBefore(i) # {}

\* C6 amended: under either default threshold (0.0 configured, 0.84 of the
\* parameter) a document whose own score meets the threshold (any nonzero
\* vector; an all-zero one scores 0.0) is returned unless top_k or more
\* equal-scoring documents precede it; when returned it stands right behind
\* the equal-scoring documents that precede it, so first when there is none.
C6_SameImageRanked ==
    \A i \in 1..Len(documents) :
        (/\ SameVectorSearch(i, {GOOD_CONFIDENCE_THRESHOLD, DEFAULT_CONFIDENCE_THRESHOLD})
         /\ ScoreA(i) >= resp.threshold) =>
            /\ Returned(documents[i].id) <=> Cardinality(TiedBefore(i)) < resp.top_k
            /\ Returned(documents[i].id) =>
                  resp.results[Cardinality(TiedBefore(i)) + 1].image_id = documents[i].id

\* C6 witness: the same image is stored second, behind a document of lower
\* score, and is returned first.
C6_Witness ==
    /\ Len(documents) = 2
    /\ SameImageSearch(2)
    /\ doc_similarity(cfg, resp.query, documents[1]).ok
    /\ ScoreA(1) >= resp.threshold
    /\ ScoreA(1) < ScoreA(2)
    /\ resp.results[1].image_id = documents[2].id

\* The collection without the documents whose vector length differs from the
\* query's.
WellFormedFor(query) == SelectSeq(documents, LAMBDA d : Len(d.features) = Len(query))

\* C7: a search with a query of the configured length skips the documents whose vector length differs from the
\* query's: it succeeds and returns the ranking of the remaining documents.
C7_BadRecordsSkipped ==
    (AppwriteRanked /\ Len(resp.query) = FEATURE_DIMENSION) =>
        resp.results = search_similar_images(cfg, WellFormedFor(resp.query), resp.query,
                                             resp.top_k, resp.threshold, resp.category)

\* C8: a search whose query vector has not FEATURE_DIMENSION components fails.
C8_QueryDimensionChecked ==
    (resp.op \in AppwriteRankOps \cup PineconeRankOps /\ Len(resp.query) # FEATURE_DIMENSION)
        => resp.outcome = "error"

\* C9: a search over an empty candidate set succeeds with an empty ranking,
\* which /api/upload classifies as not_found; and /api/upload answers
\* not_found only for an empty ranking.  (A Pinecone handler whose service
\* cannot be constructed performs no search.)
C9_EmptyIsNotFound ==
    /\ (/\ resp.op \in AppwriteRankOps
        /\ documents = << >>
        /\ resp.op = "search_by_features" => Len(resp.query) = FEATURE_DIMENSION) =>
          resp.outcome = "ok" /\ resp.results = << >>
    /\ (resp.op \in PineconeRankOps /\ index = << >> /\ cfg.credentials) =>
          resp.outcome = "ok" /\ resp.results = << >>
    /\ resp.op = "upload_image" =>
          (resp.status = "not_found" <=> resp.results = << >>)

\* C9 witness: /api/upload answers not_found over an empty collection.
C9_Witness ==
    /\ resp.op = "upload_image"
    /\ documents = << >>
    /\ resp.status = "not_found"

\* C10: for a non-empty ranking /api/upload answers exact_match exactly when
\* the top score is at least the exact-match threshold.
C10_ExactMatchIffTop ==
    (resp.op = "upload_image" /\ resp.results # << >>) =>
        (resp.status = "exact_match"
            <=> resp.results[1].similarity >= EXACT_MATCH_THRESHOLD)

\* The four labels of /api/upload.
StatusLabels == {"not_found", "exact_match", "high_confidence", "low_confidence"}

\* C11: /api/upload answers with one of the four labels; for a non-empty
\* ranking whose top score is below the exact-match threshold the label is
\* high_confidence when some result reaches HIGH_CONFIDENCE_THRESHOLD and
\* low_confidence otherwise.
C11_HighOrLow ==
    resp.op = "upload_image" =>
        /\ resp.status \in StatusLabels
        /\ (resp.results # << >> /\ resp.results[1].similarity < EXACT_MATCH_THRESHOLD) =>
              resp.status =
                  IF \E r \in 1..Len(resp.results) :
                         resp.results[r].similarity >= cfg.HIGH_CONFIDENCE_THRESHOLD
                  THEN "high_confidence" ELSE "low_confidence"

\* C11 witness: the top result is below the exact-match threshold and at or
\* above the high-confidence one, a second result is below both, and the
\* answer is high_confidence.
C11_Witness ==
    /\ resp.op = "upload_image"
    /\ Len(resp.results) = 2
    /\ resp.results[1].similarity < EXACT_MATCH_THRESHOLD
    /\ resp.results[1].similarity >= cfg.HIGH_CONFIDENCE_THRESHOLD
    /\ resp.results[2].similarity < cfg.HIGH_CONFIDENCE_THRESHOLD
    /\ resp.status = "high_confidence"

\* The latest call of the library object.
Latest == calls[Len(calls)]

\* The call returns the final similarity of a blending scheme: scheme A or
\* B through calculate_similarity (unless the simulator answers) or through
\* calculate_similarity_with_breakdown.
Blend(call) ==
    \/ call.method = "calculate_similarity_with_breakdown"
    \/ call.method = "calculate_similarity" /\ ~SimulatorRuns

\* C12: under both blending schemes the final similarity of two vectors of
\* the same length, one of them all-zero, is returned without an exception
\* and is exactly 0.
C12_ZeroNormIsZero ==
    (/\ calls # << >>
     /\ Blend(Latest)
     /\ Len(Latest.f1) = Len(Latest.f2)
     /\ IsZeroNorm(Latest.f1) \/ IsZeroNorm(Latest.f2)) =>
        Latest.result.ok /\ Latest.result.similarity = 0

\* C13: under both blending schemes the final similarity of two vectors of
\* different lengths raises and returns no score.
C13_MismatchRaises ==
    (calls # << >> /\ Blend(Latest) /\ Len(Latest.f1) # Len(Latest.f2)) =>
        ~Latest.result.ok

\* A score or sub-score in [0, 1].
InUnitInterval(x) == 0 <= x /\ x <= MICRO

SwappedCalls ==
    /\ Len(calls) = 2
    /\ calls[1].method = calls[2].method
    /\ calls[1].f1 = calls[2].f2
    /\ calls[1].f2 = calls[2].f1
    /\ Len(calls[1].f1) = Len(calls[1].f2)
    /\ Blend(calls[1])

\* C15: under both blending schemes final(v1, v2) equals final(v2, v1) for
\* vectors of the same length.
C15_Symmetric ==
    SwappedCalls => calls[1].result = calls[2].result

\* C15 witness: the two calls compare two different nonzero vectors and
\* return a score strictly between 0 and 1.
C15_Witness ==
    /\ SwappedCalls
    /\ calls[1].f1 # calls[1].f2
    /\ ~IsZeroNorm(calls[1].f1) /\ ~IsZeroNorm(calls[1].f2)
    /\ calls[2].result.similarity > 0
    /\ calls[2].result.similarity < MICRO

\* C16: under both blending schemes and every number of precision bits the
\* final similarity of a nonzero vector with itself is within 1e-4 of 1
\* (100 millionths).
C16_SelfSimilarityOne ==
    (/\ calls # << >>
     /\ Blend(Latest)
     /\ Latest.f1 = Latest.f2
     /\ ~IsZeroNorm(Latest.f1)) =>
        /\ Latest.result.ok
        /\ MICRO - Latest.result.similarity <= 100

\* C17: two calls of calculate_similarity with the same inputs return the
\* same score, in every mode.
C17_Deterministic ==
    (/\ Len(calls) = 2
     /\ calls[1].method = "calculate_similarity"
     /\ calls[2].method = "calculate_similarity"
     /\ calls[1].f1 = calls[2].f1
     /\ calls[1].f2 = calls[2].f2) =>
        calls[1].result = calls[2].result

\* The operations that only rank: the two search functions and the handlers
\* that call them without storing.
SearchOps ==
    {"search_similar_images", "upload_image", "search_by_features",
     "search", "pinecone.upload_image"}

\* C18: a step that answers a search leaves the stored candidates unchanged,
\* in the Appwrite collection and in the Pinecone index alike: no record,
\* vector or metadata is created, modified or deleted.
C18_SearchLeavesStore ==
    [][resp'.op \in SearchOps => documents' = documents /\ index' = index]_vars

\* C18 witness: a search has returned matches from a non-empty store.
C18_Witness ==
    /\ resp.op \in SearchOps
    /\ resp.results # << >>
    /\ documents # << >> \/ index # << >>

\* C19: with a threshold of 0 the threshold filter drops nothing: a ranking
\* has min(top_k, S) results, S the number of candidates that pass the
\* category filter and were scored; for the Appwrite ranker (scores computed
\* in process) and for Pinecone search (scores of the vector store).
C19_ZeroThresholdKeepsAll ==
    /\ (AppwriteRanked /\ resp.threshold = 0) =>
          LET S == {i \in 1..Len(documents) :
                        /\ PassesFilter(documents[i].category)
                        /\ doc_similarity(cfg, resp.query, documents[i]).ok}
          IN Len(resp.results) = Min(resp.top_k, Cardinality(S))
    /\ (PineconeRanked /\ resp.threshold = 0) =>
          LET S == {i \in 1..Len(index) : PassesFilter(index[i].category)}
          IN Len(resp.results) = Min(resp.top_k, Cardinality(S))

\* The requests of the two HTTP servers.
HandlerOps ==
    {"upload_image", "upload_and_store", "search_by_features",
     "pinecone.upload_image", "pinecone.upload_and_store"}

\* C20: a request is answered only by a process that has validated its
\* configuration and found it valid; a process whose configuration is missing
\* or invalid answers no request.
C20_ValidatedBeforeServing ==
    resp.op \in HandlerOps => process.validated /\ validate(cfg)

\* C21: the breakdown reports the entanglement term exactly when the object
\* was constructed with enable_entanglement (false by default), and the final
\* similarity of the breakdown and of calculate_similarity is the one the
\* object returns with the other setting of enable_entanglement.
C21_EntanglementOptIn ==
    (calls # << >> /\ algo.scheme = "A" /\ ~SimulatorRuns) =>
        LET other == BreakdownTable[algo.n_precision_qubits][~algo.enable_entanglement]
                                   [Latest.f1][Latest.f2]
        IN /\ Latest.result.has_entanglement =
                 (algo.enable_entanglement
                     /\ Latest.method = "calculate_similarity_with_breakdown"
                     /\ Latest.result.ok)
           /\ Latest.result.ok = other.ok
           /\ Latest.result.similarity = other.similarity

\* C21 witness: an object with enable_entanglement has returned a breakdown
\* of two different nonzero vectors that reports the entanglement term.
C21_Witness ==
    /\ calls # << >>
    /\ algo.enable_entanglement
    /\ Latest.method = "calculate_similarity_with_breakdown"
    /\ Latest.result.has_entanglement
    /\ Latest.f1 # Latest.f2
    /\ ~IsZeroNorm(Latest.f1) /\ ~IsZeroNorm(Latest.f2)
    /\ Latest.result.similarity > 0

\* C24: scheme B's final similarity of two nonzero vectors of the same
\* length is clamp(0.90 * c + 0.10 * c^0.95), c being the cosine remapped
\* from [-1, 1] to [0, 1] by (x + 1) / 2 (in hundredths).
C24_SchemeBRemaps ==
    (/\ calls # << >>
     /\ algo.scheme = "B"
     /\ Latest.method = "calculate_similarity"
     /\ Len(Latest.f1) = Len(Latest.f2)
     /\ ~IsZeroNorm(Latest.f1) /\ ~IsZeroNorm(Latest.f2)) =>
        LET c == (CosPct(Latest.f1, Latest.f2) + 100) \div 2
        IN /\ Latest.result.ok
           /\ Latest.result.similarity = MILLI * Clip(9 * c + Pow095(c), 0, 1000)

\* C25: when /api/upload reports an exact match, the exact_match record is
\* the top-ranked result.
C25_ExactMatchIsTop ==
    (resp.op = "upload_image" /\ resp.exact_match # NoMatch) =>
        resp.exact_match = resp.results[1]

\* C28: every vector of the index has FEATURE_DIMENSION components, and the
\* vector a successful upsert_vector has written is its input, padded with trailing
\* zeros when shorter and cut to its first FEATURE_DIMENSION components when
\* longer.
C28_StoredDimension ==
    /\ \A i \in 1..Len(index) : Len(index[i].values) = FEATURE_DIMENSION
    /\ (resp.op = "upsert_vector" /\ resp.outcome = "ok") =>
          \A i \in 1..Len(index) :
              index[i].id = resp.stored_id =>
                  \A k \in 1..FEATURE_DIMENSION :
                      index[i].values[k] =
                          IF k <= Len(resp.query) THEN resp.query[k] ELSE 0

\* C28 witness: an upsert of a longer vector has been answered and its id is
\* in the index.
C28_Witness ==
    /\ resp.op = "upsert_vector"
    /\ Len(resp.query) > FEATURE_DIMENSION
    /\ \E i \in 1..Len(index) : index[i].id = resp.stored_id

\* C28 witness of the padding: an upsert of a shorter vector has been answered.
C28_WitnessPadded ==
    /\ resp.op = "upsert_vector"
    /\ Len(resp.query) < FEATURE_DIMENSION
    /\ \E i \in 1..Len(index) : index[i].id = resp.stored_id

\* C27: when /api/upload-and-store of the Pinecone server reports success,
\* the index holds the image's vector and category under its vector id.
C27_SuccessMeansStored ==
    (resp.op = "pinecone.upload_and_store" /\ resp.outcome = "ok") =>
        \E i \in 1..Len(index) :
            /\ index[i].id = resp.stored_id
            /\ index[i].values = pad_or_truncate(resp.query)
            /\ index[i].category = resp.category

\* C26: a successful /api/upload-and-store of the Pinecone server returns
\* min(top_k, M) similar images, M being the number of other vectors of the
\* image's category whose score meets the threshold.
C26_OthersFillTopK ==
    (resp.op = "pinecone.upload_and_store" /\ resp.outcome = "ok") =>
        LET M == Cardinality({i \in 1..Len(index) :
                                  /\ index[i].id # resp.stored_id
                                  /\ index[i].category = resp.category
                                  /\ ScoreP(i) >= resp.threshold})
        IN Len(resp.results) = Min(resp.top_k, M)

\* /api/upload of the Pinecone server has been answered with a ranking.
UploadAnswered == resp.op = "pinecone.upload_image" /\ resp.outcome = "ok"

\* The rankings the request for this file returns when it is the only
\* request the server has handled: the features are extracted from the file.
AloneRankings(contents) ==
    {search(index, extract_features(contents), HANDLER_TOP_K, NoCategory,
            GOOD_CONFIDENCE_THRESHOLD, rev) : rev \in BOOLEAN}

\* C22: two /api/upload requests over the same index do not influence each
\* other: in whichever order the server handles them, each is answered with
\* a ranking it returns when it is handled alone.
C22_RequestsIndependent ==
    UploadAnswered => resp.results \in AloneRankings(resp.image)

\* The two calls in `calls` are a set_features that returned True and, with
\* no expiry or other call in between, a get_features of the same bytes.
SetThenGet ==
    /\ Len(calls) = 2
    /\ calls[1].method = "set_features"
    /\ calls[1].value = Some(TRUE)
    /\ calls[2].method = "get_features"
    /\ calls[2].data = calls[1].data

\* A get_features of bytes whose key holds no entry.
GetOfAbsentKey ==
    /\ calls # << >>
    /\ Latest.method = "get_features"
    /\ store[generate_key("features", Latest.data)] = None

\* C23 as stated: after set_features(data, f) has returned True,
\* get_features(data) returns f until the entry expires or is overwritten,
\* and get_features of bytes whose key holds no entry returns None.
C23_RoundTrip ==
    /\ SetThenGet => calls[2].value = Some(calls[1].features)
    /\ GetOfAbsentKey => Latest.value = None

\* C23 amended: the same while Redis is reachable at the time of the get;
\* when it is not, get_features returns None.
C23_RoundTripConnected ==
    /\ SetThenGet =>
          calls[2].value = IF calls[2].connection = "up" THEN Some(calls[1].features)
                           ELSE None
    /\ GetOfAbsentKey => Latest.value = None

\* C23 witness: a list that was stored has been read back.
C23_Witness ==
    /\ SetThenGet
    /\ calls[2].value = Some(calls[1].features)

\* C29: the `cached` flag of an /api/upload response is true exactly when
\* the features came from the cache.
C29_CachedMeansHit ==
    UploadAnswered => (resp.cached <=> resp.hit)

\* C30: a cache call never raises, and without a reachable Redis
\* get_features returns None and set_features returns False; a request to
\* /api/upload handled without a reachable Redis is answered from freshly
\* extracted features with a ranking of the server without a cache.
C30_CacheFailuresTolerated ==
    /\ \A c \in 1..Len(calls) :
          (deployment = "cache" /\ calls[c].method \in {"get_features", "set_features"}) =>
              /\ ~calls[c].raised
              /\ calls[c].connection # "up" =>
                    calls[c].value = IF calls[c].method = "get_features" THEN None
                                     ELSE Some(FALSE)
    /\ (resp.op = "pinecone.upload_image" /\ redis # "up") =>
          /\ resp.outcome = "ok"
          /\ ~resp.hit
          /\ resp.query = extract_features(resp.image)
          /\ resp.results \in AloneRankings(resp.image)

\* C30 witness: Redis is unreachable, it holds an entry under the key of the
\* uploaded file, and the request has been answered with matches.
C30_Witness ==
    /\ UploadAnswered
    /\ redis = "down"
    /\ store[generate_key("features", resp.image)] # None
    /\ resp.results # << >>

=============================================================================
